---- MODULE Spec2Model ----
(***************************************************************************)
(* Model of pyrdf2vec's Vertex (graphs/vertex.py) and of the               *)
(* Weisfeiler-Lehman walker (walkers/weisfeiler_lehman.py).                *)
(*                                                                         *)
(* Strings are sequences of character codes, so that concatenation,        *)
(* lexicographic sorting and joining are computed as Python computes them. *)
(* Vertex objects live in the arena `vertices`; an object is its index in  *)
(* the arena (0 stands for None), its fields are the record stored there.  *)
(***************************************************************************)
EXTENDS Integers, Sequences, FiniteSets, TLC

VARIABLES
    vertices,        \* arena of all Vertex objects created so far
    counter,         \* Vertex._counter: the next id itertools.count() yields
    last_cmp,        \* result of the last __eq__ / __hash__ call (observer)
    triples,         \* the triples the knowledge graph was built from
    loose,           \* names of the predicate vertices added without any edge
    order,           \* iteration order of graph._vertices (a Python set)
    wl_iterations,   \* self.wl_iterations
    pc,              \* position inside _weisfeiler_lehman
    idx,             \* position of the running for loop in `order`
    n,               \* the round of the loop of line 56
    label_map,       \* self._label_map
    inv_label_map,   \* self._inv_label_map
    err,             \* the exception that ended the call and the line that raised it
    reads,           \* rounds of the label map read by the last _create_label
    enum,            \* sequence get_inv_neighbors returned to the last _create_label
    runs,            \* number of _weisfeiler_lehman calls started
    prev_label_map,  \* label map left by the previous call
    caller,          \* "direct" or "extract": who called _weisfeiler_lehman
    epc,             \* position inside extract
    instances,       \* the instances argument of extract
    inst,            \* index of the current instance
    walks,           \* raw walks of the current instance
    round,           \* the round of the loop of line 87
    canonical_walks, \* the set extract accumulates
    contributed,     \* canonical walks added per (instance, round) (observer)
    lookups,         \* log: was the relabeling complete when walks/labels were used
    depth,           \* self.depth
    walks_per_graph  \* self.walks_per_graph

vvars == <<vertices, counter, last_cmp>>
gvars == <<triples, loose, order, wl_iterations>>
wvars == <<pc, idx, n, label_map, inv_label_map, err, reads, enum,
           runs, prev_label_map, caller>>
evars == <<epc, instances, inst, walks, round, canonical_walks, contributed,
           lookups, depth, walks_per_graph>>
vars == <<vvars, gvars, wvars, evars>>

(***************************************************************************)
(* Bounds                                                                  *)
(***************************************************************************)
MaxVertices == 3      \* vertices created in the Vertex specification
MaxWL == 2            \* largest wl_iterations tried
MaxRuns == 2          \* _weisfeiler_lehman calls in a row
MaxInstances == 2     \* longest instances argument tried
MaxDepth == 1         \* largest depth tried
MaxWalks == 1         \* largest walks_per_graph tried

(***************************************************************************)
(* Strings                                                                 *)
(***************************************************************************)
NameA == <<65>>
NameB == <<66>>
NameC == <<67>>
NameP == <<112>>
NameQ == <<113>>
NameS == <<55296>>                    \* "\ud800", a lone surrogate
Sep == <<45>>                         \* "-"

Names == {NameA, NameP}

Range(f) == {f[i] : i \in DOMAIN f}

\* Python's < on str: the code points at the first position where the two
\* differ decide; a proper prefix is smaller.
StrLess(a, b) ==
    LET m == IF Len(a) < Len(b) THEN Len(a) ELSE Len(b)
        diff == {i \in 1..m : a[i] # b[i]}
    IN IF diff = {} THEN Len(a) < Len(b)
       ELSE LET i == CHOOSE j \in diff : \A k \in diff : j <= k IN a[i] < b[i]

MinStr(S) == CHOOSE s \in S : \A t \in S \ {s} : StrLess(s, t)

RECURSIVE Sorted(_)
\* sorted(S) for a set S of strings.
Sorted(S) ==
    IF S = {} THEN <<>>
    ELSE LET m == MinStr(S) IN <<m>> \o Sorted(S \ {m})

RECURSIVE Join(_, _)
\* sep.join(seq)
Join(sep, seq) ==
    IF seq = <<>> THEN <<>>
    ELSE IF Len(seq) = 1 THEN seq[1]
    ELSE seq[1] \o sep \o Join(sep, Tail(seq))

(***************************************************************************)
(* hashlib.md5 (RFC 1321), str.encode and the repr of bytes.  A 32-bit     *)
(* word is the pair <<high 16 bits, low 16 bits>>.                         *)
(***************************************************************************)
RECURSIVE BitAnd(_, _, _)
\* a & b for numbers of k bits
BitAnd(a, b, k) ==
    IF k = 0 THEN 0
    ELSE (a % 2) * (b % 2) + 2 * BitAnd(a \div 2, b \div 2, k - 1)

\* a & b for every pair of bytes, at index a * 256 + b
AndTable == [i \in 0..65535 |-> BitAnd(i \div 256, i % 256, 8)]

\* a & b for 16-bit numbers
And16(a, b) ==
    AndTable[(a \div 256) * 256 + (b \div 256)] * 256
        + AndTable[(a % 256) * 256 + (b % 256)]

\* &, |, ^ and ~ on words
WAnd(a, b) == <<And16(a[1], b[1]), And16(a[2], b[2])>>
WOr(a, b) ==
    <<a[1] + b[1] - And16(a[1], b[1]), a[2] + b[2] - And16(a[2], b[2])>>
WXor(a, b) ==
    <<a[1] + b[1] - 2 * And16(a[1], b[1]), a[2] + b[2] - 2 * And16(a[2], b[2])>>
WNot(a) == <<65535 - a[1], 65535 - a[2]>>

\* a + b modulo 2^32
WAdd(a, b) ==
    LET lo == a[2] + b[2]
    IN <<(a[1] + b[1] + lo \div 65536) % 65536, lo % 65536>>

\* the word <<hi, lo>> rotated left by s < 16 bits
Rotl16(hi, lo, s) ==
    IF s = 0 THEN <<hi, lo>>
    ELSE LET q == 2 ^ (16 - s)
             p == 2 ^ s
         IN <<(hi % q) * p + lo \div q, (lo % q) * p + hi \div q>>

\* the word rotated left by s < 32 bits
Rotl(a, s) == IF s < 16 THEN Rotl16(a[1], a[2], s) ELSE Rotl16(a[2], a[1], s - 16)

\* floor(2^32 * abs(sin(i))) for i = 1..64
Md5K == <<
    <<55146, 42104>>, <<59591, 46934>>, <<9248, 28891>>, <<49597, 52974>>,
    <<62844, 4015>>, <<18311, 50730>>, <<43056, 17939>>, <<64838, 38145>>,
    <<27008, 39128>>, <<35652, 63407>>, <<65535, 23473>>, <<35164, 55230>>,
    <<27536, 4386>>, <<64920, 29075>>, <<42617, 17294>>, <<18868, 2081>>,
    <<63006, 9570>>, <<49216, 45888>>, <<9822, 23121>>, <<59830, 51114>>,
    <<54831, 4189>>, <<580, 5203>>, <<55457, 59009>>, <<59347, 64456>>,
    <<8673, 52710>>, <<49975, 2006>>, <<62677, 3463>>, <<17754, 5357>>,
    <<43491, 59653>>, <<64751, 41976>>, <<26479, 729>>, <<36138, 19594>>,
    <<65530, 14658>>, <<34673, 63105>>, <<28061, 24866>>, <<64997, 14348>>,
    <<42174, 59972>>, <<19422, 53161>>, <<63163, 19296>>, <<48831, 48240>>,
    <<10395, 32454>>, <<60065, 10234>>, <<54511, 12421>>, <<1160, 7429>>,
    <<55764, 53305>>, <<59099, 39397>>, <<8098, 31992>>, <<50348, 22117>>,
    <<62505, 8772>>, <<17194, 65431>>, <<43924, 9127>>, <<64659, 41017>>,
    <<25947, 22979>>, <<36620, 52370>>, <<65519, 62589>>, <<34180, 24017>>,
    <<28584, 32335>>, <<65068, 59104>>, <<41729, 17172>>, <<19976, 4513>>,
    <<63315, 32386>>, <<48442, 62005>>, <<10967, 53947>>, <<60294, 54161>> >>

\* the rotation of each operation
Md5S == <<7, 12, 17, 22, 7, 12, 17, 22, 7, 12, 17, 22, 7, 12, 17, 22,
          5, 9, 14, 20, 5, 9, 14, 20, 5, 9, 14, 20, 5, 9, 14, 20,
          4, 11, 16, 23, 4, 11, 16, 23, 4, 11, 16, 23, 4, 11, 16, 23,
          6, 10, 15, 21, 6, 10, 15, 21, 6, 10, 15, 21, 6, 10, 15, 21>>

\* the initial state 0x67452301, 0xefcdab89, 0x98badcfe, 0x10325476
Md5Start == << <<26437, 8961>>, <<61389, 43913>>, <<39098, 56574>>, <<4146, 21622>> >>

\* one of the 64 operations of a block
Md5Step(st, M, i) ==
    LET A == st[1]
        B == st[2]
        C == st[3]
        D == st[4]
        F == IF i < 16 THEN WOr(WAnd(B, C), WAnd(WNot(B), D))
             ELSE IF i < 32 THEN WOr(WAnd(D, B), WAnd(WNot(D), C))
             ELSE IF i < 48 THEN WXor(WXor(B, C), D)
             ELSE WXor(C, WOr(B, WNot(D)))
        g == IF i < 16 THEN i
             ELSE IF i < 32 THEN (5 * i + 1) % 16
             ELSE IF i < 48 THEN (3 * i + 5) % 16
             ELSE (7 * i) % 16
        sum == WAdd(WAdd(A, F), WAdd(Md5K[i + 1], M[g + 1]))
    IN <<D, WAdd(B, Rotl(sum, Md5S[i + 1])), B, C>>

RECURSIVE Md5Steps(_, _, _, _)
\* the k operations i, i + 1, ... in a row; the first half is bound to `mid`
\* before the second half starts
Md5Steps(st, M, i, k) ==
    IF k = 1 THEN Md5Step(st, M, i)
    ELSE CHOOSE r \in {Md5Steps(mid, M, i + k \div 2, k - k \div 2) :
                           mid \in {Md5Steps(st, M, i, k \div 2)}} : TRUE

\* the 16 little-endian words of the block that starts after byte `off`
Md5Words(bytes, off) ==
    [j \in 1..16 |->
        <<bytes[off + 4 * j] * 256 + bytes[off + 4 * j - 1],
          bytes[off + 4 * j - 2] * 256 + bytes[off + 4 * j - 3]>>]

\* the message, 0x80, zeros up to 56 modulo 64, and the bit length in 8
\* little-endian bytes
Md5Pad(bytes) ==
    LET len == Len(bytes)
        zeros == (55 - len) % 64
        bits == len * 8
    IN bytes \o <<128>> \o [i \in 1..zeros |-> 0]
             \o [i \in 1..8 |-> IF i <= 4 THEN (bits \div (256 ^ (i - 1))) % 256 ELSE 0]

RECURSIVE Md5Blocks(_, _, _)
\* the state after the blocks from byte off on: every block adds the result
\* of its 64 operations to the state it started from
Md5Blocks(st, bytes, off) ==
    IF off >= Len(bytes) THEN st
    ELSE CHOOSE out \in
            {Md5Blocks(<<WAdd(st[1], r[1]), WAdd(st[2], r[2]),
                         WAdd(st[3], r[3]), WAdd(st[4], r[4])>>, bytes, off + 64) :
                r \in {Md5Steps(st, M, 0, 64) : M \in {Md5Words(bytes, off)}}} : TRUE

\* md5(bytes).digest(): 16 bytes
Md5Digest(bytes) ==
    LET st == Md5Blocks(Md5Start, Md5Pad(bytes), 0)
    IN [i \in 1..16 |->
          LET w == st[(i - 1) \div 4 + 1]
              k == (i - 1) % 4
          IN IF k = 0 THEN w[2] % 256
             ELSE IF k = 1 THEN w[2] \div 256
             ELSE IF k = 2 THEN w[1] % 256
             ELSE w[1] \div 256]

RECURSIVE Concat(_, _, _)
\* parts[lo] \o ... \o parts[hi]
Concat(parts, lo, hi) ==
    IF lo > hi THEN <<>>
    ELSE IF lo = hi THEN parts[lo]
    ELSE LET mid == (lo + hi) \div 2
         IN Concat(parts, lo, mid) \o Concat(parts, mid + 1, hi)

\* the code points U+D800..U+DFFF: a str may hold them, UTF-8 has no encoding
\* for them
Surrogate(c) == c >= 55296 /\ c <= 57343

\* the outcome of an encoding: the bytes, or the exception raised
Encoded(bytes) == [raises |-> "", bytes |-> bytes]
EncodeError == [raises |-> "UnicodeEncodeError", bytes |-> <<>>]

\* UTF-8 of one code point; a surrogate raises UnicodeEncodeError
Utf8(c) ==
    IF Surrogate(c) THEN EncodeError
    ELSE IF c < 128 THEN Encoded(<<c>>)
    ELSE IF c < 2048 THEN Encoded(<<192 + c \div 64, 128 + (c % 64)>>)
    ELSE IF c < 65536
    THEN Encoded(<<224 + c \div 4096, 128 + ((c \div 64) % 64), 128 + (c % 64)>>)
    ELSE Encoded(<<240 + c \div 262144, 128 + ((c \div 4096) % 64),
                   128 + ((c \div 64) % 64), 128 + (c % 64)>>)

\* str.encode(): the bytes of the code points in a row; one surrogate makes
\* the whole call raise
Encode(s) ==
    IF \E i \in DOMAIN s : Utf8(s[i]).raises # "" THEN EncodeError
    ELSE Encoded(Concat([i \in DOMAIN s |-> Utf8(s[i]).bytes], 1, Len(s)))

HexDigit(d) == IF d < 10 THEN 48 + d ELSE 87 + d

\* one byte inside the repr of a bytes object
ReprByte(c, quote) ==
    IF c = quote \/ c = 92 THEN <<92, c>>
    ELSE IF c = 9 THEN <<92, 116>>
    ELSE IF c = 10 THEN <<92, 110>>
    ELSE IF c = 13 THEN <<92, 114>>
    ELSE IF c < 32 \/ c >= 127 THEN <<92, 120, HexDigit(c \div 16), HexDigit(c % 16)>>
    ELSE <<c>>

\* str(b) of a bytes object
BytesRepr(bytes) ==
    LET quote == IF (\E i \in DOMAIN bytes : bytes[i] = 39)
                    /\ ~(\E i \in DOMAIN bytes : bytes[i] = 34)
                 THEN 34 ELSE 39
    IN <<98, quote>>
           \o Concat([i \in DOMAIN bytes |-> ReprByte(bytes[i], quote)], 1, Len(bytes))
           \o <<quote>>

(***************************************************************************)
(* Vertex                                                                  *)
(***************************************************************************)
None == 0

NewVertex(name, predicate, vprev, vnext, id) ==
    [name |-> name, predicate |-> predicate, vprev |-> vprev,
     vnext |-> vnext, id |-> id]

Objects == 1..Len(vertices)

\* Variant of __eq__ whose predicate branch forgets the identity and
\* compares the names only.
VEqNames(self, other) ==
    IF other = None THEN FALSE
    ELSE vertices[self].name = vertices[other].name

RECURSIVE VEq(_, _)
RECURSIVE ItemEq(_, _)
\* x == y inside a tuple comparison: identity first, then x.__eq__(y); None
\* against a vertex ends in Vertex.__eq__(v, None), which is False.
ItemEq(x, y) ==
    IF x = y THEN TRUE
    ELSE IF x = None \/ y = None THEN FALSE
    ELSE VEq(x, y)

\* Vertex.__eq__(self, other) for other a vertex or None.
VEq(self, other) ==
    IF other = None THEN FALSE
    ELSE IF vertices[self].predicate
    THEN /\ vertices[self].id = vertices[other].id
         /\ ItemEq(vertices[self].vprev, vertices[other].vprev)
         /\ ItemEq(vertices[self].vnext, vertices[other].vnext)
         /\ vertices[self].name = vertices[other].name
    ELSE vertices[self].name = vertices[other].name

\* hash(s) of a str; hashes are modelled as collision free, the value is the
\* thing hashed.
StrHash(s) == [kind |-> "str", id |-> 0, prev |-> <<>>, next |-> <<>>, name |-> s]

RECURSIVE VHash(_)
\* hash of an element of the tuple: hash(None) or Vertex.__hash__.
ItemHash(x) == IF x = None THEN <<>> ELSE <<VHash(x)>>

\* Vertex.__hash__(self)
VHash(self) ==
    IF vertices[self].predicate
    THEN [kind |-> "tuple", id |-> vertices[self].id,
          prev |-> ItemHash(vertices[self].vprev),
          next |-> ItemHash(vertices[self].vnext),
          name |-> vertices[self].name]
    ELSE StrHash(vertices[self].name)

NoCmp == [op |-> "none", a |-> 0, b |-> 0, res |-> FALSE, ha |-> <<>>, hb |-> <<>>]

\* Variant of the factory that reads the counter without advancing it.
CreateStale(name, predicate, vprev, vnext) ==
    /\ Len(vertices) < MaxVertices
    /\ vertices' = Append(vertices, NewVertex(name, predicate, vprev, vnext, counter))
    /\ counter' = counter
    /\ UNCHANGED last_cmp

\* Vertex(name, predicate, vprev, vnext): the factory draws the id from the
\* shared counter.
Create(name, predicate, vprev, vnext) ==
    /\ Len(vertices) < MaxVertices
    /\ vertices' = Append(vertices, NewVertex(name, predicate, vprev, vnext, counter))
    /\ counter' = counter + 1
    /\ UNCHANGED last_cmp

\* a == b, together with the two hashes.
Equals(a, b) ==
    /\ last_cmp' = [op |-> "eq", a |-> a, b |-> b, res |-> VEq(a, b),
                    ha |-> <<VHash(a)>>,
                    hb |-> IF b = None THEN <<>> ELSE <<VHash(b)>>]
    /\ UNCHANGED <<vertices, counter>>

(***************************************************************************)
(* Knowledge graph (pyrdf2vec.graph.KnowledgeGraph, an external            *)
(* collaborator): built from triples (s, p, o); every subject and object   *)
(* is one entity vertex, every triple one predicate vertex between them;    *)
(* a predicate vertex may also be added on its own, without any edge.      *)
(***************************************************************************)
TripleSeq == << <<NameA, NameP, NameB>>, <<NameB, NameQ, NameC>>, <<NameA, NameP, NameC>> >>

\* the sets of triples tried: every set but the one of all the triples
TripleSets == {T \in SUBSET (1..Len(TripleSeq)) : T # 1..Len(TripleSeq)}

EntityNames(T) == {TripleSeq[t][1] : t \in T} \cup {TripleSeq[t][3] : t \in T}

\* position of a string in a sorted sequence of distinct strings
IndexOf(seq, s) == CHOOSE i \in DOMAIN seq : seq[i] = s

RECURSIVE SortedInts(_)
SortedInts(S) ==
    IF S = {} THEN <<>>
    ELSE LET m == CHOOSE x \in S : \A y \in S : x <= y IN <<m>> \o SortedInts(S \ {m})

\* The graphs tried: one per set of triples, the graph of one predicate
\* vertex "p" without edges, and the graph of one predicate vertex without
\* edges whose name is a lone surrogate (Vertex accepts any str as name).
Graphs == {<<T, <<>>>> : T \in TripleSets} \cup {<<{}, <<NameP>>>>, <<{}, <<NameS>>>>}

\* The arena after the graph is built: the entity vertices, then one
\* predicate vertex per triple, then the predicate vertices without edges
\* named by l; ids in creation order.
BuildArena(T, l) ==
    LET ents == Sorted(EntityNames(T))
        ts == SortedInts(T)
        ne == Len(ents)
        nt == Len(ts)
    IN [i \in 1..(ne + nt + Len(l)) |->
          IF i <= ne
          THEN NewVertex(ents[i], FALSE, None, None, i - 1)
          ELSE IF i <= ne + nt
          THEN LET t == TripleSeq[ts[i - ne]]
               IN NewVertex(t[2], TRUE, IndexOf(ents, t[1]), IndexOf(ents, t[3]), i - 1)
          ELSE NewVertex(l[i - ne - nt], TRUE, None, None, i - 1)]

\* graph._vertices
GraphVertices ==
    1..(Cardinality(EntityNames(triples)) + Cardinality(triples) + Len(loose))

\* the set behind get_inv_neighbors(v) in the graph with the vertices gv of
\* the arena ar: the subject of a predicate vertex, the predicate vertices
\* that point to an entity vertex
InvNeighborsIn(ar, gv, v) ==
    IF ar[v].predicate THEN {ar[v].vprev} \ {None}
    ELSE {p \in gv : ar[p].predicate /\ ar[p].vnext = v}

\* the set behind graph.get_inv_neighbors(v)
InvNeighborSet(v) == InvNeighborsIn(vertices, GraphVertices, v)

\* the set behind graph.get_neighbors(v)
NeighborSet(v) ==
    IF vertices[v].predicate THEN {vertices[v].vnext} \ {None}
    ELSE {p \in GraphVertices : vertices[p].predicate /\ vertices[p].vprev = v}

\* The sequences get_inv_neighbors may return: every inverse neighbour at
\* least once, in any order, at most one element more than the set has.
Enumerations(S) ==
    {e \in UNION {[1..k -> S] : k \in Cardinality(S)..(Cardinality(S) + 1)} :
        Range(e) = S}

\* The iteration orders of the set graph._vertices: the order depends on the
\* hashes of the vertices, any order of the m vertices can come out.
Orders(m) == {f \in [1..m -> 1..m] : Range(f) = 1..m}

(***************************************************************************)
(* str(md5(s.encode()).digest())                                           *)
(***************************************************************************)
RECURSIVE LabelWith(_, _, _, _, _)
RECURSIVE Composite(_, _, _, _, _)
\* the string lines 59-60 build for vertex v in round m of the graph (ar, gv),
\* the digests of the earlier rounds taken from tab
Composite(tab, ar, gv, v, m) ==
    LabelWith(tab, ar, gv, v, m - 1) \o Sep \o
        Join(Sep, Sorted({LabelWith(tab, ar, gv, x, m - 1) :
                             x \in InvNeighborsIn(ar, gv, v)}))

\* the round-m label of vertex v in the graph (ar, gv)
LabelWith(tab, ar, gv, v, m) ==
    IF m = 0 THEN ar[v].name ELSE tab[Composite(tab, ar, gv, v, m)]

RECURSIVE Labelled(_, _, _, _)
\* the rounds 1..m of the graph (ar, gv) raise nothing: tab has the digest of
\* every string they build
Labelled(tab, ar, gv, m) ==
    IF m = 0 THEN TRUE
    ELSE /\ Labelled(tab, ar, gv, m - 1)
         /\ \A v \in gv : Composite(tab, ar, gv, v, m) \in DOMAIN tab

\* the strings lines 59-61 digest in round m on the graphs tried; a graph on
\* which an earlier round raised has no round m
RoundMessages(tab, m) ==
    UNION {LET ar == BuildArena(g[1], g[2])
               gv == DOMAIN ar
           IN IF Labelled(tab, ar, gv, m - 1)
              THEN {Composite(tab, ar, gv, v, m) : v \in gv}
              ELSE {} :
           g \in Graphs}

RECURSIVE Md5Rounds(_)
\* the digests of the strings of the rounds 1..m that encode
Md5Rounds(m) ==
    IF m = 0 THEN <<>>
    ELSE LET prev == Md5Rounds(m - 1)
             new == {s \in RoundMessages(prev, m) \ DOMAIN prev : Encode(s).raises = ""}
         IN prev @@ [s \in new |-> BytesRepr(Md5Digest(Encode(s).bytes))]

\* The digests of the strings the rounds 1..MaxWL digest on the graphs tried,
\* computed once.
Md5Table == Md5Rounds(MaxWL)

\* the outcome of line 61: the string, or the exception raised
Digested(str) == [raises |-> "", str |-> str]

\* str(md5(s.encode()).digest()); raises what s.encode() raises
Md5Str(s) ==
    IF s \in DOMAIN Md5Table THEN Digested(Md5Table[s])
    ELSE LET b == Encode(s)
         IN IF b.raises # "" THEN [raises |-> b.raises, str |-> <<>>]
            ELSE Digested(BytesRepr(Md5Digest(b.bytes)))

(***************************************************************************)
(* Dictionaries                                                            *)
(***************************************************************************)
EmptyDict == <<>>

IntV(i) == [t |-> "int", i |-> i, s |-> <<>>, v |-> 0]
StrV(s) == [t |-> "str", i |-> 0, s |-> s, v |-> 0]
VtxV(v) == [t |-> "vtx", i |-> 0, s |-> <<>>, v |-> v]

\* d[k] = val for a key that compares by value
Put(d, k, val) == [x \in DOMAIN d \cup {k} |-> IF x = k THEN val ELSE d[x]]

\* The key of the label map that a lookup with vertex x finds: equal hash and
\* identical or stored_key == x.
LabelKeys(d, x) == {k \in DOMAIN d : VHash(k) = VHash(x) /\ (k = x \/ VEq(k, x))}

HasLabel(d, x, m) == \E k \in LabelKeys(d, x) : m \in DOMAIN d[k]

GetLabel(d, x, m) == d[CHOOSE k \in LabelKeys(d, x) : m \in DOMAIN d[k]][m]

\* self._label_map[x][m] = val (defaultdict: a missing x gets a new dict)
SetLabel(d, x, m, val) ==
    IF LabelKeys(d, x) = {}
    THEN Put(d, x, Put(EmptyDict, m, val))
    ELSE LET k == CHOOSE k \in LabelKeys(d, x) : TRUE IN Put(d, k, Put(d[k], m, val))

\* self._label_map[x] of a read: the dictionary of x, a new empty one when x
\* is not a key
LabelItems(d, x) ==
    IF LabelKeys(d, x) = {} THEN EmptyDict
    ELSE d[CHOOSE k \in LabelKeys(d, x) : TRUE]

\* the label map after the read self._label_map[x]: the defaultdict inserts a
\* missing x with an empty dictionary
Touch(d, x) == IF LabelKeys(d, x) = {} THEN Put(d, x, EmptyDict) ELSE d

KeyHash(k) == IF k.t = "vtx" THEN VHash(k.v) ELSE StrHash(k.s)

\* A lookup in the inverse map compares the stored keys of equal hash with
\* the key looked up.  A str against a vertex ends in Vertex.__eq__ with a
\* str as `other`, which reads other.name (other.id) and raises
\* AttributeError.
InvLookupRaises(d, key) ==
    \E k \in DOMAIN d : k.t # key.t /\ KeyHash(k) = KeyHash(key)

InvKeys(d, key) ==
    {k \in DOMAIN d :
        /\ k.t = key.t
        /\ KeyHash(k) = KeyHash(key)
        /\ IF key.t = "vtx" THEN k.v = key.v \/ VEq(k.v, key.v) ELSE k.s = key.s}

\* self._inv_label_map[key][ik] = val
SetInv(d, key, ik, val) ==
    IF InvKeys(d, key) = {}
    THEN Put(d, key, Put(EmptyDict, ik, val))
    ELSE LET k == CHOOSE k \in InvKeys(d, key) : TRUE IN Put(d, k, Put(d[k], ik, val))

(***************************************************************************)
(* WeisfeilerLehmanWalker._weisfeiler_lehman                               *)
(***************************************************************************)
\* The position in the enumeration of the first vertex whose round m is
\* missing from the label map, 0 if every one is there.
FirstMissing(e, m) ==
    IF \A i \in DOMAIN e : HasLabel(label_map, e[i], m)
    THEN 0
    ELSE CHOOSE i \in DOMAIN e :
             /\ ~HasLabel(label_map, e[i], m)
             /\ \A j \in 1..(i - 1) : HasLabel(label_map, e[j], m)

\* Variant of _create_label that joins the neighbour labels as enumerated,
\* without set() and sorted().
CreateLabelUnsorted(vertex, m, e) ==
    LET miss == FirstMissing(e, m - 1)
        keyerr == IF miss # 0 THEN e[miss]
                  ELSE IF ~HasLabel(label_map, vertex, m - 1) THEN vertex
                  ELSE None
        neighbor_names == [i \in DOMAIN e |-> GetLabel(label_map, e[i], m - 1)]
    IN [keyerr |-> keyerr,
        line |-> IF miss # 0 THEN 27 ELSE 32,
        label |-> IF keyerr # None THEN <<>>
                  ELSE GetLabel(label_map, vertex, m - 1) \o Sep \o Join(Sep, neighbor_names),
        reads |-> IF miss # 0 THEN {<<e[i], m - 1>> : i \in 1..miss}
                  ELSE {<<e[i], m - 1>> : i \in DOMAIN e} \cup {<<vertex, m - 1>>}]

\* _create_label(graph, vertex, m), e being what get_inv_neighbors(vertex)
\* returned: the composite string, the entries of the label map it read, and
\* the vertex whose missing entry raised KeyError (None if none did) with the
\* line that raised it.  The list of line 27 is built in the order of e and
\* stops at the first missing entry; the vertex's own label is read in line
\* 32, after the list is complete.
CreateLabel(vertex, m, e) ==
    LET miss == FirstMissing(e, m - 1)
        keyerr == IF miss # 0 THEN e[miss]
                  ELSE IF ~HasLabel(label_map, vertex, m - 1) THEN vertex
                  ELSE None
        neighbor_names == [i \in DOMAIN e |-> GetLabel(label_map, e[i], m - 1)]
        suffix == Join(Sep, Sorted(Range(neighbor_names)))
    IN [keyerr |-> keyerr,
        line |-> IF miss # 0 THEN 27 ELSE 32,
        label |-> IF keyerr # None THEN <<>>
                  ELSE GetLabel(label_map, vertex, m - 1) \o Sep \o suffix,
        reads |-> IF miss # 0 THEN {<<e[i], m - 1>> : i \in 1..miss}
                  ELSE {<<e[i], m - 1>> : i \in DOMAIN e} \cup {<<vertex, m - 1>>}]

NoReads == [vertex |-> None, n |-> 0, entries |-> {}]

NoErr == [type |-> "", line |-> 0]

\* the exception of the given type raised by the given line of the walker
Raised(type, line) == [type |-> type, line |-> line]

\* Variant of the loop nest of lines 56-57 with the loops exchanged: all the
\* rounds of one vertex before the next vertex.
AfterVertexMajor(ph, i, m) ==
    IF ph = "round"
    THEN IF m < wl_iterations THEN [pc |-> "round", idx |-> i, n |-> m + 1]
         ELSE IF i < Len(order) THEN [pc |-> "round", idx |-> i + 1, n |-> 1]
         ELSE [pc |-> "inverse", idx |-> 1, n |-> m]
    ELSE IF i < Len(order) THEN [pc |-> ph, idx |-> i + 1, n |-> m]
    ELSE IF ph = "init" /\ wl_iterations >= 1 THEN [pc |-> "round", idx |-> 1, n |-> 1]
    ELSE IF ph = "init" THEN [pc |-> "inverse", idx |-> 1, n |-> m]
    ELSE [pc |-> "done", idx |-> 1, n |-> m]

\* Where control is after the loop body at position i of phase ph, round m.
After(ph, i, m) ==
    IF i < Len(order) THEN [pc |-> ph, idx |-> i + 1, n |-> m]
    ELSE IF ph = "init" /\ wl_iterations >= 1 THEN [pc |-> "round", idx |-> 1, n |-> 1]
    ELSE IF ph = "round" /\ m < wl_iterations THEN [pc |-> "round", idx |-> 1, n |-> m + 1]
    ELSE IF ph \in {"init", "round"} THEN [pc |-> "inverse", idx |-> 1, n |-> m]
    ELSE [pc |-> "done", idx |-> 1, n |-> m]

\* Where control is after lines 49-50: with no vertex every loop is empty.
Enter ==
    IF Len(order) = 0 THEN [pc |-> "done", idx |-> 1, n |-> 0]
    ELSE [pc |-> "init", idx |-> 1, n |-> 0]

Goto(pos) == pc' = pos.pc /\ idx' = pos.idx /\ n' = pos.n

\* Variant of lines 49-50 that keeps the label map of the previous call.
BeginKeep(who) ==
    /\ prev_label_map' = label_map
    /\ label_map' = label_map
    /\ inv_label_map' = EmptyDict
    /\ runs' = runs + 1
    /\ caller' = who
    /\ err' = NoErr
    /\ reads' = NoReads
    /\ enum' = <<>>
    /\ Goto(Enter)

\* lines 49-50: both maps are replaced by new empty dictionaries
Begin(who) ==
    /\ prev_label_map' = label_map
    /\ label_map' = EmptyDict
    /\ inv_label_map' = EmptyDict
    /\ runs' = runs + 1
    /\ caller' = who
    /\ err' = NoErr
    /\ reads' = NoReads
    /\ enum' = <<>>
    /\ Goto(Enter)

\* a direct call of _weisfeiler_lehman(graph), made when no call is running:
\* before any call, after a direct call is over, after extract has returned
\* or raised
Relabel ==
    /\ pc \in {"idle", "done", "error"}
    /\ epc \in {"idle", "returned", "error"}
    /\ runs < MaxRuns
    /\ Begin("direct")
    /\ UNCHANGED <<vvars, gvars, evars>>

\* lines 52-54, one vertex
InitStep ==
    /\ pc = "init"
    /\ LET v == order[idx]
           key == StrV(vertices[v].name)
       IN /\ label_map' = SetLabel(label_map, v, 0, vertices[v].name)
          /\ IF InvLookupRaises(inv_label_map, key)
             THEN /\ pc' = "error" /\ err' = Raised("AttributeError", 54)
                  /\ UNCHANGED <<idx, n, inv_label_map>>
             ELSE /\ inv_label_map' = SetInv(inv_label_map, key, IntV(0), VtxV(v))
                  /\ Goto(After("init", idx, n))
                  /\ UNCHANGED err
    /\ UNCHANGED <<reads, enum, runs, prev_label_map, caller>>
    /\ UNCHANGED <<vvars, gvars, evars>>

\* lines 57-61, one vertex of round n: _create_label may raise KeyError,
\* s_n.encode() of line 61 UnicodeEncodeError, before anything is stored
RoundStep ==
    /\ pc = "round"
    /\ LET vertex == order[idx]
       IN \E e \in Enumerations(InvNeighborSet(vertex)) :
            LET r == CreateLabel(vertex, n, e)
                d == Md5Str(r.label)
            IN /\ enum' = e
               /\ reads' = [vertex |-> vertex, n |-> n, entries |-> r.reads]
               /\ IF r.keyerr # None
                  THEN /\ label_map' = Touch(label_map, r.keyerr)
                       /\ pc' = "error" /\ err' = Raised("KeyError", r.line)
                       /\ UNCHANGED <<idx, n>>
                  ELSE IF d.raises # ""
                  THEN /\ pc' = "error" /\ err' = Raised(d.raises, 61)
                       /\ UNCHANGED <<label_map, idx, n>>
                  ELSE /\ label_map' = SetLabel(label_map, vertex, n, d.str)
                       /\ Goto(After("round", idx, n))
                       /\ UNCHANGED err
    /\ UNCHANGED <<inv_label_map, runs, prev_label_map, caller>>
    /\ UNCHANGED <<vvars, gvars, evars>>

RECURSIVE PutAll(_, _, _, _)
\* for key, val in items.items(): d[vk][val] = key, over the rounds still in todo
PutAll(d, vk, items, todo) ==
    IF todo = {} THEN d
    ELSE LET k == CHOOSE x \in todo : \A y \in todo : x <= y
         IN PutAll(SetInv(d, vk, StrV(items[k]), IntV(k)), vk, items, todo \ {k})

\* lines 63-65, one vertex: line 64 reads self._label_map[vertex]; line 65
\* runs once per item, its first lookup of the vertex in the inverse map is
\* the one that can raise
InverseStep ==
    /\ pc = "inverse"
    /\ LET vertex == order[idx]
           key == VtxV(vertex)
           items == LabelItems(label_map, vertex)
       IN /\ label_map' = Touch(label_map, vertex)
          /\ IF DOMAIN items # {} /\ InvLookupRaises(inv_label_map, key)
             THEN /\ pc' = "error" /\ err' = Raised("AttributeError", 65)
                  /\ UNCHANGED <<idx, n, inv_label_map>>
             ELSE /\ inv_label_map' = PutAll(inv_label_map, key, items, DOMAIN items)
                  /\ Goto(After("inverse", idx, n))
                  /\ UNCHANGED err
    /\ UNCHANGED <<reads, enum, runs, prev_label_map, caller>>
    /\ UNCHANGED <<vvars, gvars, evars>>

(***************************************************************************)
(* RandomWalker.extract_random_walks (pyrdf2vec.walkers, an external       *)
(* collaborator)                                                           *)
(***************************************************************************)
\* the graph vertex a lookup with vertex x finds
GraphKeys(x) == {g \in GraphVertices : VHash(g) = VHash(x) /\ (g = x \/ VEq(g, x))}

Last(w) == w[Len(w)]

\* one more (predicate, entity) pair on every walk that can go on
ExtendOnce(W) ==
    UNION {LET ps == UNION {NeighborSet(g) : g \in GraphKeys(Last(w))}
           IN IF ps = {} THEN {w}
              ELSE {w \o <<p, vertices[p].vnext>> : p \in ps} : w \in W}

RECURSIVE Extend(_, _)
Extend(W, k) == IF k = 0 THEN W ELSE Extend(ExtendOnce(W), k - 1)

\* every walk from root: alternating entity / predicate / entity, at most
\* 2 * depth + 1 hops; none for a root the graph does not know
AllWalks(root) == IF GraphKeys(root) = {} THEN {} ELSE Extend({<<root>>}, depth)

\* what extract_random_walks may return: all the walks, or a sample of
\* walks_per_graph of them when there are more
WalkSamples(root) ==
    LET all == AllWalks(root)
    IN IF Cardinality(all) <= walks_per_graph THEN {all}
       ELSE {W \in SUBSET all : Cardinality(W) = walks_per_graph}

(***************************************************************************)
(* WeisfeilerLehmanWalker.extract                                          *)
(***************************************************************************)
\* line 91: the hops that keep their name (i counts from 0)
KeepsName(i) == i = 0 \/ i % 2 = 1

\* lines 89-94: the canonical walk of one raw walk at round m
CanonicalWalk(walk, m) ==
    [j \in 1..Len(walk) |->
        IF KeepsName(j - 1) THEN vertices[walk[j]].name
        ELSE GetLabel(label_map, walk[j], m)]

\* line 94 raises KeyError when the label map has no round m for a hop
CanonicalRaises(walk, m) ==
    \E j \in 1..Len(walk) : ~KeepsName(j - 1) /\ ~HasLabel(label_map, walk[j], m)

\* lines 88-95 for one round: the canonical walks of all the raw walks
CanonicalWalksOf(W, m) == {CanonicalWalk(w, m) : w \in W}

\* the instances arguments tried
RootSeqs == {[i \in 1..k |-> NameA] : k \in 1..MaxInstances}

\* line 83: extract(graph, instances) calls _weisfeiler_lehman(graph); the
\* call is made when no call is running
ExtractStart ==
    /\ epc \in {"idle", "returned", "error"}
    /\ pc \in {"idle", "done", "error"}
    /\ runs < MaxRuns
    /\ instances' \in RootSeqs
    /\ epc' = "relabel"
    /\ Begin("extract")
    /\ UNCHANGED <<inst, walks, round, canonical_walks, contributed, lookups,
                   depth, walks_per_graph>>
    /\ UNCHANGED <<vvars, gvars>>

\* the exception of _weisfeiler_lehman leaves extract
ExtractRaise ==
    /\ epc = "relabel" /\ pc = "error"
    /\ epc' = "error"
    /\ UNCHANGED <<instances, inst, walks, round, canonical_walks, contributed,
                   lookups, depth, walks_per_graph>>
    /\ UNCHANGED <<vvars, gvars, wvars>>

\* line 83 returned: _weisfeiler_lehman ran to its end
Relabeled == pc = "done"

\* line 84
ExtractProceed ==
    /\ epc = "relabel" /\ Relabeled
    /\ epc' = "loop"
    /\ canonical_walks' = {}
    /\ inst' = 0
    /\ contributed' = <<>>
    /\ UNCHANGED <<instances, walks, round, lookups, depth, walks_per_graph>>
    /\ UNCHANGED <<vvars, gvars, wvars>>

\* line 86, Vertex(str(instance)): the root is a new entity vertex
ExtractInstance ==
    /\ epc = "loop" /\ inst < Len(instances)
    /\ inst' = inst + 1
    /\ vertices' = Append(vertices, NewVertex(instances[inst + 1], FALSE, None, None, counter))
    /\ counter' = counter + 1
    /\ epc' = "walks"
    /\ UNCHANGED <<instances, walks, round, canonical_walks, contributed, lookups,
                   depth, walks_per_graph>>
    /\ UNCHANGED <<last_cmp, gvars, wvars>>

\* line 86, extract_random_walks(graph, root)
ExtractWalks ==
    /\ epc = "walks"
    /\ walks' \in WalkSamples(Len(vertices))
    /\ round' = 0
    /\ epc' = "rounds"
    /\ lookups' = lookups \cup {pc}
    /\ UNCHANGED <<instances, inst, canonical_walks, contributed, depth, walks_per_graph>>
    /\ UNCHANGED <<vvars, gvars, wvars>>

\* the first hop of the walk whose label line 94 does not find
FirstRaising(walk, m) ==
    walk[CHOOSE j \in 1..Len(walk) :
            /\ ~KeepsName(j - 1) /\ ~HasLabel(label_map, walk[j], m)
            /\ \A k \in 1..(j - 1) : KeepsName(k - 1) \/ HasLabel(label_map, walk[k], m)]

\* lines 87-95 for one round of the current instance; the KeyError of line
\* 94 comes from the first walk that has a hop without label, after the read
\* self._label_map[hop] of that hop
ExtractRound ==
    /\ epc = "rounds"
    /\ IF \E w \in walks : CanonicalRaises(w, round)
       THEN /\ epc' = "error"
            /\ \E w \in walks :
                  /\ CanonicalRaises(w, round)
                  /\ label_map' = Touch(label_map, FirstRaising(w, round))
            /\ UNCHANGED <<round, canonical_walks, contributed>>
       ELSE /\ canonical_walks' = canonical_walks \cup CanonicalWalksOf(walks, round)
            /\ contributed' = Put(contributed, <<inst, round>>, CanonicalWalksOf(walks, round))
            /\ round' = round + 1
            /\ epc' = IF round < wl_iterations THEN "rounds" ELSE "loop"
            /\ UNCHANGED label_map
    /\ UNCHANGED <<instances, inst, walks, lookups, depth, walks_per_graph>>
    /\ UNCHANGED <<pc, idx, n, inv_label_map, err, reads, enum, runs,
                   prev_label_map, caller>>
    /\ UNCHANGED <<vvars, gvars>>

\* line 96
ExtractReturn ==
    /\ epc = "loop" /\ inst = Len(instances)
    /\ epc' = "returned"
    /\ UNCHANGED <<instances, inst, walks, round, canonical_walks, contributed,
                   lookups, depth, walks_per_graph>>
    /\ UNCHANGED <<vvars, gvars, wvars>>

WLInit ==
    /\ pc = "idle" /\ idx = 1 /\ n = 0
    /\ label_map = EmptyDict /\ inv_label_map = EmptyDict
    /\ err = NoErr /\ reads = NoReads /\ enum = <<>>
    /\ runs = 0 /\ prev_label_map = EmptyDict /\ caller = "none"

\* the graph is built and the walker constructed; graph._vertices is tried
\* in every order
GraphInit ==
    /\ \E g \in Graphs : triples = g[1] /\ loose = g[2]
    /\ vertices = BuildArena(triples, loose)
    /\ counter = Len(vertices)
    /\ last_cmp = NoCmp
    /\ wl_iterations \in 0..MaxWL
    /\ order \in Orders(Len(vertices))

ExtractIdle ==
    /\ epc = "idle" /\ instances = <<>> /\ inst = 0 /\ walks = {}
    /\ round = 0 /\ canonical_walks = {} /\ contributed = <<>>
    /\ lookups = {}
    /\ depth \in 1..MaxDepth
    /\ walks_per_graph \in 1..MaxWalks

Init == GraphInit /\ WLInit /\ ExtractIdle

Next ==
    \/ Relabel \/ InitStep \/ RoundStep \/ InverseStep
    \/ ExtractStart \/ ExtractRaise \/ ExtractProceed
    \/ ExtractInstance \/ ExtractWalks \/ ExtractRound \/ ExtractReturn

Spec == Init /\ [][Next]_vars

(***************************************************************************)
(* Vertex on its own: creations and comparisons.                           *)
(***************************************************************************)
VertexInit ==
    /\ vertices = <<>> /\ counter = 0 /\ last_cmp = NoCmp
    /\ triples = {} /\ loose = <<>> /\ order = <<>> /\ wl_iterations = 0
    /\ WLInit
    /\ epc = "idle" /\ instances = <<>> /\ inst = 0 /\ walks = {}
    /\ round = 0 /\ canonical_walks = {} /\ contributed = <<>>
    /\ lookups = {} /\ depth = 1 /\ walks_per_graph = 1

VertexNext ==
    \/ \E name \in Names :
          Create(name, FALSE, None, None) /\ UNCHANGED <<gvars, wvars, evars>>
    \/ \E name \in Names, vprev, vnext \in {None} \cup Objects :
          Create(name, TRUE, vprev, vnext) /\ UNCHANGED <<gvars, wvars, evars>>
    \/ \E a \in Objects, b \in {None} \cup Objects :
          Equals(a, b) /\ UNCHANGED <<gvars, wvars, evars>>

SpecVertex == VertexInit /\ [][VertexNext]_vars

(***************************************************************************)
(* Properties                                                              *)
(***************************************************************************)
\* the round-m label of graph vertex v that the label map holds
Lbl(v, m) == label_map[v][m]

\* what the canonical walk holds by the rule "name at the even hops, label
\* at the odd hops"
WalkNamesEven(w, m) ==
    [j \in 1..Len(w) |->
        IF (j - 1) % 2 = 0 THEN vertices[w[j]].name ELSE Lbl(w[j], m)]

\* extract(graph, ["A", ...]) on the chain A --p--> B --q--> C with depth = 1
\* and wl_iterations = 1 is over
ChainCase ==
    /\ triples = {1, 2} /\ depth = 1 /\ wl_iterations = 1
    /\ caller = "extract" /\ instances # <<>> /\ instances[1] = NameA
    /\ epc \in {"returned", "error"}

\* C1: every canonical walk built for a raw walk at round m has the length of
\* the raw walk, the raw names at the even positions and the round-m labels
\* at the odd positions; on the chain, extract returns a set that holds
\* ("A", round-1 label of p, "B"), the encoding of (A, p, B) at round 1.
C1_Original ==
    /\ \A m \in 0..wl_iterations :
          <<inst, m>> \in DOMAIN contributed =>
             contributed[<<inst, m>>] = {WalkNamesEven(w, m) : w \in walks}
    /\ ChainCase =>
          /\ epc = "returned"
          /\ <<NameA, Md5Str(NameP \o Sep \o NameA).str, NameB>> \in canonical_walks

\* the call of _weisfeiler_lehman is over
CallOver == runs >= 1 /\ pc \in {"done", "error"}

\* C2: after _weisfeiler_lehman has run, no error was raised and the label
\* map holds for every graph vertex exactly the rounds 0..wl_iterations,
\* round 0 is the name and round m is the digest of the round m-1 label, "-",
\* and the sorted distinct round m-1 labels of the inverse neighbours joined
\* by "-"; a vertex without inverse neighbours gets the digest of
\* (label + "-").
C2_LabelMap ==
    CallOver =>
       /\ err.type = ""
       /\ DOMAIN label_map = GraphVertices
       /\ \A v \in GraphVertices :
             /\ DOMAIN label_map[v] = 0..wl_iterations
             /\ Lbl(v, 0) = vertices[v].name
             /\ \A m \in 1..wl_iterations :
                   /\ Lbl(v, m) = Md5Str(Lbl(v, m - 1) \o Sep \o
                          Join(Sep, Sorted({Lbl(x, m - 1) : x \in InvNeighborSet(v)}))).str
                   /\ InvNeighborSet(v) = {} =>
                         Lbl(v, m) = Md5Str(Lbl(v, m - 1) \o Sep).str

LabelSet(e, m) == {Lbl(x, m) : x \in Range(e)}

\* the sequences of graph vertices that stand for other enumerations: made of
\* the vertices whose round-m label is one of those the enumeration gave
AltEnums(v, m) ==
    LET same == {x \in GraphVertices : Lbl(x, m) \in LabelSet(enum, m)}
    IN UNION {[1..k -> same] : k \in 0..(Cardinality(InvNeighborSet(v)) + 1)}

\* C3: the label _create_label made last is the same for every enumeration
\* with the same set of distinct round n-1 labels, whatever its order and
\* its repetitions.
C3_OrderFree ==
    (reads.vertex # None /\ err.type \notin {"KeyError", "UnicodeEncodeError"}) =>
       LET v == reads.vertex
           m == reads.n
           used == CreateLabel(v, m, enum).label
       IN /\ Lbl(v, m) = Md5Str(used).str
          /\ \A e \in AltEnums(v, m - 1) :
                LabelSet(e, m - 1) = LabelSet(enum, m - 1) =>
                   CreateLabel(v, m, e).label = used

C3_Witness ==
    /\ reads.vertex # None /\ reads.n >= 1
    /\ Len(enum) = 3 /\ Cardinality(Range(enum)) = 2
    /\ enum[1] > enum[2]

\* C4: two entity vertices are equal iff their names are; two predicate
\* vertices are equal iff id, previous, next and name all are, so two
\* predicate vertices from separate creations are never equal.
C4_Equality ==
    (last_cmp.op = "eq" /\ last_cmp.b # None) =>
       LET va == vertices[last_cmp.a]
           vb == vertices[last_cmp.b]
       IN /\ (~va.predicate /\ ~vb.predicate) =>
                (last_cmp.res <=> va.name = vb.name)
          /\ (va.predicate /\ vb.predicate) =>
                /\ last_cmp.res <=> (/\ va.id = vb.id
                                     /\ ItemEq(va.vprev, vb.vprev)
                                     /\ ItemEq(va.vnext, vb.vnext)
                                     /\ va.name = vb.name)
                /\ last_cmp.a # last_cmp.b => ~last_cmp.res

C4_Witness ==
    /\ last_cmp.op = "eq" /\ last_cmp.b # None /\ last_cmp.a # last_cmp.b
    /\ vertices[last_cmp.a].predicate /\ vertices[last_cmp.b].predicate
    /\ vertices[last_cmp.a].name = vertices[last_cmp.b].name
    /\ vertices[last_cmp.a].vprev = vertices[last_cmp.b].vprev
    /\ vertices[last_cmp.a].vprev # None
    /\ vertices[last_cmp.a].vnext = vertices[last_cmp.b].vnext
    /\ ~last_cmp.res

\* C5: whenever a == b holds for vertices a and b, of either kind, their
\* hashes are equal.
C5_HashContract ==
    (last_cmp.op = "eq" /\ last_cmp.b # None /\ last_cmp.res) =>
       last_cmp.ha = last_cmp.hb

\* C6: every vertex has an id greater than the id of every vertex created
\* before it, and no step changes the id of an existing vertex.
C6_FreshIds ==
    /\ [](\A i, j \in Objects : i < j => vertices[i].id < vertices[j].id)
    /\ [][\A i \in Objects : vertices'[i].id = vertices[i].id]_vars

C6_Witness == Len(vertices) >= 3 /\ vertices[3].id > vertices[1].id

\* C8: a call of _weisfeiler_lehman starts from empty maps, and a second
\* call on the same graph leaves the label map the first call left.
C8_Idempotent ==
    /\ (runs >= 1 /\ pc = "init" /\ idx = 1) =>
          (label_map = EmptyDict /\ inv_label_map = EmptyDict)
    /\ (runs >= 2 /\ pc \in {"inverse", "done", "error"}) =>
          label_map = prev_label_map

C8_Witness ==
    /\ runs = 2 /\ pc \in {"inverse", "done", "error"}
    /\ wl_iterations >= 1 /\ Cardinality(triples) >= 2
    /\ label_map = prev_label_map

\* C9: _create_label for round n reads round n-1 entries only; a round-m
\* label (m >= 1) is in the map only when every graph vertex has its
\* round m-1 label; and extract asks for walks and labels only after
\* _weisfeiler_lehman has run to its end.
C9_Sequenced ==
    /\ \A r \in reads.entries : r[2] = reads.n - 1
    /\ \A v \in DOMAIN label_map : \A m \in DOMAIN label_map[v] :
          m >= 1 => \A u \in GraphVertices :
                       u \in DOMAIN label_map /\ (m - 1) \in DOMAIN label_map[u]
    /\ (caller = "extract" /\ epc \in {"loop", "walks", "rounds", "returned"}) =>
          pc = "done"
    /\ lookups \subseteq {"done"}

C9_Witness ==
    /\ pc = "round" /\ reads.n = 2 /\ reads.vertex # None
    /\ Cardinality(reads.entries) >= 2

\* C10: when _weisfeiler_lehman has returned, every key of the inverse map is
\* a graph vertex, every inner key a label, every inner value a round, and
\* inverse[v][label_map[v][m]] = m for every graph vertex v and round m.
C10_InverseMap ==
    (runs >= 1 /\ pc = "done") =>
       /\ \A k \in DOMAIN inv_label_map :
             /\ k.t = "vtx" /\ k.v \in GraphVertices
             /\ \A ik \in DOMAIN inv_label_map[k] :
                   ik.t = "str" /\ inv_label_map[k][ik].t = "int"
       /\ \A v \in GraphVertices : \A m \in 0..wl_iterations :
             /\ VtxV(v) \in DOMAIN inv_label_map
             /\ StrV(Lbl(v, m)) \in DOMAIN inv_label_map[VtxV(v)]
             /\ inv_label_map[VtxV(v)][StrV(Lbl(v, m))] = IntV(m)

====
